---- MODULE Spec2Model ----
(***************************************************************************)
(* Model of the FDA food-enforcement connector (src/connector.py): the     *)
(* sync loop `update`, the retry client `make_api_request_with_retry`, the *)
(* cursor extractor `get_latest_report_date` and the page processor        *)
(* `process_food_enforcement_records`, run repeatedly by a host that hands *)
(* each run the last checkpointed state.                                   *)
(*                                                                         *)
(* Strings are sequences of one-character strings, compared as Python      *)
(* compares str values (by code point, shorter prefix first).              *)
(***************************************************************************)
EXTENDS Integers, Sequences, FiniteSets, TLC

VARIABLES
    configuration,  \* the configuration dict handed to update
    max_retries,    \* make_api_request_with_retry's max_retries argument
    upstream,       \* the upstream dataset, in the server's result order
    persisted,      \* the host's durable state blob: the last op.checkpoint
    destination,    \* recall_numbers upserted into food_enforcement_records
    clock,          \* wall clock (datetime.now), one tick per run
    runs,           \* number of runs of update started so far
    pc,             \* position of the current run of update
    state,          \* update's `state` argument (after line 117-122 defaulting)
    params,         \* update's `params` dict: limit, search, skip
    skip,           \* update's local `skip`
    total_processed,            \* update's local `total_processed`
    current_batch_processed,    \* update's local `current_batch_processed`
    data,           \* update's local `data`: bound or not, and its results
    attempt,        \* make_api_request_with_retry's loop index
    waits,          \* the time.sleep durations of the current retry call
    error,          \* the exception update raised to its caller
    \* ---- observation (history) variables, not read by the program ----
    gets,           \* requests.get calls issued in this run
    callGets,       \* requests.get calls issued by the current retry call
    fetches,        \* retry calls of this run that returned a response
    ckpts,          \* op.checkpoint calls of this run
    pages,          \* pages handed to process_food_enforcement_records
    lastPage,       \* the last page processed in this run
    runUpserted,    \* recall_numbers upserted by this run
    exit,           \* why the while loop of this run ended
    exhausted,      \* the retry call of this run ran out of attempts
    failSnap,       \* persisted/destination/gets when the attempts ran out
    prevEnd,        \* how the previous run ended
    prevSearch,     \* the previous run's search filter
    prevDest,       \* destination when the previous run ended
    pageRows,       \* the rows the last processed page handed to op.upsert
    \* ---- one call of a pure function (flatten_dict, the cursor scan) ----
    arg,            \* the argument of the call
    ret             \* the value it returned

vars == <<configuration, max_retries, upstream, persisted, destination, clock,
          runs, pc, state, params, skip, total_processed,
          current_batch_processed, data, attempt, waits, error, gets,
          callGets, fetches, ckpts, pages, lastPage, runUpserted, exit,
          exhausted, failSnap, prevEnd, prevSearch, prevDest, pageRows, arg,
          ret>>

----------------------------------------------------------------------------
(* Bounds of the model *)

\* longest upstream dataset
MaxRecs == 3
\* runs of update per behaviour
MaxRuns == 2
\* largest max_retries tried by the retry-client specification
MaxAttempts == 4

(* Program constants *)

\* limit clamp, line 131
ApiMaxLimit == 1000
\* default max_retries, line 246
DefaultMaxRetries == 3
\* last_cursor of the default state is None, line 121
NoCursor == -1

----------------------------------------------------------------------------
(* Strings *)

\* None and "" alike: both are falsy where the code tests them
None == <<>>

CharCode ==
    [c \in {"+", "-", ".", "0", "1", "2", "3", "4", "5", "6", "7", "8", "9",
            ":", "A", "T", "Z"} |->
        CASE c = "+" -> 43 [] c = "-" -> 45 [] c = "." -> 46
          [] c = "0" -> 48 [] c = "1" -> 49 [] c = "2" -> 50 [] c = "3" -> 51
          [] c = "4" -> 52 [] c = "5" -> 53 [] c = "6" -> 54 [] c = "7" -> 55
          [] c = "8" -> 56 [] c = "9" -> 57 [] c = ":" -> 58 [] c = "A" -> 65
          [] c = "T" -> 84 [] c = "Z" -> 90]

RECURSIVE StrLessFrom(_, _, _)
StrLessFrom(a, b, i) ==
    IF i > Len(a) THEN i <= Len(b)
    ELSE IF i > Len(b) THEN FALSE
    ELSE IF a[i] = b[i] THEN StrLessFrom(a, b, i + 1)
    ELSE CharCode[a[i]] < CharCode[b[i]]

\* Python's a < b on str
StrLess(a, b) == StrLessFrom(a, b, 1)

Digit(n) == CASE n = 0 -> "0" [] n = 1 -> "1" [] n = 2 -> "2" [] n = 3 -> "3"
              [] n = 4 -> "4" [] n = 5 -> "5" [] n = 6 -> "6" [] n = 7 -> "7"
              [] n = 8 -> "8" [] OTHER -> "9"

\* datetime.now(timezone.utc).isoformat() at clock tick t
NowIso(t) ==
    <<"2", "0", "2", "6", "-", "1", "1", "-", "0", "1", "T",
      "0", "0", ":", "0", "0", ":", "0", Digit(t),
      "+", "0", "0", ":", "0", "0">>

\* raw report_date values of the upstream records
RawDates ==
    { <<"2", "0", "2", "4", "0", "1", "0", "1">>,
      <<"2", "0", "2", "4", "0", "3", "1", "5">>,
      <<"2", "0", "2", "4", "0", "3", "1">> }

----------------------------------------------------------------------------
(* get_latest_report_date *)

\* f"{year}-{month}-{day}T00:00:00Z", lines 235-236
IsoDate(report_date) ==
    SubSeq(report_date, 1, 4) \o <<"-">> \o SubSeq(report_date, 5, 6)
        \o <<"-">> \o SubSeq(report_date, 7, 8)
        \o <<"T", "0", "0", ":", "0", "0", ":", "0", "0", "Z">>

\* line 237: iso_date > latest_date
Newer(iso_date, latest_date) == StrLess(latest_date, iso_date)

RECURSIVE LatestScan(_, _, _)
LatestScan(records, i, latest_date) ==
    IF i > Len(records) THEN latest_date
    ELSE LET report_date == records[i].report_date
             iso_date == IsoDate(report_date)
         IN  IF report_date # None /\ Len(report_date) = 8
                  /\ (latest_date = None \/ Newer(iso_date, latest_date))
             THEN LatestScan(records, i + 1, iso_date)
             ELSE LatestScan(records, i + 1, latest_date)

get_latest_report_date(records, now) ==
    LET latest_date == LatestScan(records, 1, None)
    IN  IF latest_date # None THEN latest_date ELSE now

----------------------------------------------------------------------------
(* The upstream API *)

Min(a, b) == IF a < b THEN a ELSE b

\* a record passes the filter report_date:[search TO *] (inclusive lower bound)
RecordMatches(r, search) ==
    /\ r.report_date # None
    /\ Len(r.report_date) = 8
    /\ ~StrLess(IsoDate(r.report_date), search)

Matching(search) ==
    SelectSeq(upstream, LAMBDA r : search = None \/ RecordMatches(r, search))

\* data["results"] of the response to GET with these params
ApiResults(p) ==
    LET m == Matching(p.search)
    IN  SubSeq(m, p.skip + 1, Min(p.skip + p.limit, Len(m)))

----------------------------------------------------------------------------
(* Pieces of update *)

EmptyState ==
    [present |-> FALSE, last_sync_date |-> None, total_processed |-> 0,
     last_cursor |-> NoCursor]

\* lines 117-122: `if not state:` gives the default state
DefaultedState(st) == IF st.present THEN st ELSE EmptyState

\* line 125
InitialTotalReset(st) == 0
InitialTotal(st) == st.total_processed

\* line 142: every run starts at offset 0, whatever state["last_cursor"] holds
InitialSkipResume(st) ==
    IF st.last_cursor # NoCursor THEN st.last_cursor ELSE 0
InitialSkip(st) == 0

\* line 131
ClampedLimitNone(limit) == limit
ClampedLimit(limit) == Min(limit, ApiMaxLimit)

\* lines 135-137
SearchFilter(sync_mode, last_sync_date) ==
    IF sync_mode = "incremental" /\ last_sync_date # None
    THEN last_sync_date ELSE None

\* line 145
WhileCondInclusive(total, max_records) == total <= max_records
WhileCond(total, max_records) == total < max_records

\* line 174
EndOfDataNever(results, limit) == FALSE
EndOfData(results, limit) == Len(results) < limit

\* line 266
BackoffLinear(k) == k + 1
Backoff(k) == 2 ^ k

\* lines 197-201
FinalCursor(d, now) ==
    IF d.bound /\ d.results # <<>>
    THEN get_latest_report_date(d.results, now)
    ELSE now

Ids(records) == {records[i].recall_number : i \in 1..Len(records)}

NoData == [bound |-> FALSE, results |-> <<>>]

Now == NowIso(clock)

----------------------------------------------------------------------------
(* Initial states *)

LimitChoices == {1, 2}
MaxRecordsChoices == {1, 2, 3}

Datasets ==
    UNION { [1..n -> RawDates] : n \in 0..MaxRecs }

Upstream(dates) ==
    [i \in 1..Len(dates) |->
        [recall_number |-> i, report_date |-> dates[i], nesting |-> "shallow"]]

RunLocals ==
    /\ state = EmptyState
    /\ params = [limit |-> 0, search |-> None, skip |-> 0]
    /\ skip = 0
    /\ total_processed = 0
    /\ current_batch_processed = 0
    /\ data = NoData
    /\ attempt = 0
    /\ waits = <<>>
    /\ error = "none"
    /\ gets = 0
    /\ callGets = 0
    /\ fetches = 0
    /\ ckpts = 0
    /\ pages = 0
    /\ lastPage = <<>>
    /\ runUpserted = {}
    /\ exit = "none"
    /\ exhausted = FALSE
    /\ failSnap = <<>>
    /\ prevEnd = "none"
    /\ prevSearch = None
    /\ prevDest = {}
    /\ pageRows = <<>>

\* no pure-function call is in progress
NoCall ==
    /\ arg = <<>>
    /\ ret = <<>>

RunIdle ==
    /\ pc = "idle"
    /\ RunLocals
    /\ NoCall

Init ==
    /\ configuration \in
          [has_api_key : BOOLEAN, api_key : {"key", ""}, limit : LimitChoices,
           max_records : MaxRecordsChoices,
           sync_mode : {"incremental", "full"}]
    /\ max_retries = DefaultMaxRetries
    /\ \E dates \in Datasets : upstream = Upstream(dates)
    /\ persisted = EmptyState
    /\ destination = {}
    /\ clock = 0
    /\ runs = 0
    /\ RunIdle

----------------------------------------------------------------------------
(* make_api_request_with_retry, lines 246-273 *)

\* lines 269-271: the last failed attempt re-raises
OnExhaustedReturnNone == "none"
OnExhausted == "raise"

\* line 145 and lines 147-148, entered from line 142 and from line 193
LoopHead(total, newSkip) ==
    IF WhileCond(total, configuration.max_records)
    THEN /\ pc' = "fetch"
         /\ params' = IF newSkip > 0 THEN [params EXCEPT !.skip = newSkip]
                      ELSE params
         /\ exit' = "none"
    ELSE /\ pc' = "final"
         /\ params' = params
         /\ exit' = "cap"

\* requests.get returned and raise_for_status passed: lines 258-260, 155-164
GetOk ==
    /\ pc = "fetch"
    /\ gets' = gets + 1
    /\ callGets' = callGets + 1
    /\ fetches' = fetches + 1
    /\ data' = [bound |-> TRUE, results |-> ApiResults(params)]
    /\ IF data'.results = <<>>
       THEN pc' = "final" /\ exit' = "empty"
       ELSE pc' = "process" /\ exit' = exit
    /\ UNCHANGED <<pageRows, arg, ret, configuration, max_retries, upstream,
                   persisted, destination, clock, runs, state, params, skip,
                   total_processed, current_batch_processed, attempt, waits,
                   error, ckpts, pages, lastPage, runUpserted, exhausted,
                   failSnap, prevEnd, prevSearch, prevDest>>

\* a RequestException with another attempt left: lines 262-268
GetFailRetry ==
    /\ pc = "fetch"
    /\ attempt < max_retries - 1
    /\ gets' = gets + 1
    /\ callGets' = callGets + 1
    /\ waits' = Append(waits, Backoff(attempt))
    /\ attempt' = attempt + 1
    /\ UNCHANGED <<pageRows, arg, ret, configuration, max_retries, upstream,
                   persisted, destination, clock, runs, pc, state, params,
                   skip, total_processed, current_batch_processed, data,
                   error, fetches, ckpts, pages, lastPage, runUpserted, exit,
                   exhausted, failSnap, prevEnd, prevSearch, prevDest>>

\* a RequestException on the last attempt: lines 269-271, then 212-215
GetFailRaise ==
    /\ pc = "fetch"
    /\ ~(attempt < max_retries - 1)
    /\ gets' = gets + 1
    /\ callGets' = callGets + 1
    /\ exhausted' = TRUE
    /\ failSnap' = <<persisted, destination, gets'>>
    /\ IF OnExhausted = "raise"
       THEN /\ pc' = "failed"
            /\ error' = "RuntimeError"
            /\ exit' = exit
       ELSE \* line 273 returns None, lines 155-157 break
            /\ pc' = "final"
            /\ error' = error
            /\ exit' = "noresponse"
    /\ UNCHANGED <<pageRows, arg, ret, configuration, max_retries, upstream,
                   persisted, destination, clock, runs, state, params, skip,
                   total_processed, current_batch_processed, data, attempt,
                   waits, fetches, ckpts, pages, lastPage, runUpserted,
                   prevEnd, prevSearch, prevDest>>

----------------------------------------------------------------------------
(* update, lines 92-215 *)

\* lines 35-48
validate_presence_only(c) == c.has_api_key
validate_configuration(c) == c.has_api_key /\ c.api_key # ""

\* the host calls update with the last checkpointed state: lines 102-150
StartRun ==
    /\ pc \in {"idle", "terminated", "failed", "killed"}
    /\ runs < MaxRuns
    /\ runs' = runs + 1
    /\ clock' = clock + 1
    /\ prevEnd' = IF pc = "idle" THEN "none" ELSE pc
    /\ prevSearch' = params.search
    /\ prevDest' = destination
    /\ gets' = 0
    /\ callGets' = 0
    /\ fetches' = 0
    /\ ckpts' = 0
    /\ pages' = 0
    /\ lastPage' = <<>>
    /\ runUpserted' = {}
    /\ exhausted' = FALSE
    /\ failSnap' = <<>>
    /\ pageRows' = <<>>
    /\ attempt' = 0
    /\ waits' = <<>>
    /\ current_batch_processed' = 0
    /\ data' = NoData
    /\ IF ~validate_configuration(configuration)
       THEN /\ pc' = "failed"
            /\ error' = "ValueError"
            /\ exit' = "none"
            /\ UNCHANGED <<state, params, total_processed, skip>>
       ELSE /\ error' = "none"
            /\ state' = DefaultedState(persisted)
            /\ skip' = InitialSkip(state')
            /\ total_processed' = InitialTotal(state')
            /\ LET p == [limit |-> ClampedLimit(configuration.limit),
                         search |-> SearchFilter(configuration.sync_mode,
                                                 state'.last_sync_date),
                         skip |-> 0]
                   \* lines 147-148: params["skip"] is set only when skip > 0
                   q == IF skip' > 0 THEN [p EXCEPT !.skip = skip'] ELSE p
               IN  IF WhileCond(total_processed', configuration.max_records)
                   THEN pc' = "fetch" /\ params' = q /\ exit' = "none"
                   ELSE pc' = "final" /\ params' = p /\ exit' = "cap"
    /\ UNCHANGED <<arg, ret, configuration, max_retries, upstream, persisted,
                   destination>>

\* lines 62-66: flatten_dict recurses once per nesting level, and Python raises
\* RecursionError (an Exception) when a record nests deeper than its limit
FlattenRaises(record) == record.nesting = "too_deep"

\* lines 287-300: the records whose flattening did not raise, in page order
Processed(records) == SelectSeq(records, LAMBDA r : ~FlattenRaises(r))

\* lines 290-296: the flattened record with its two metadata fields
Row(record, now) ==
    [recall_number |-> record.recall_number,
     report_date |-> record.report_date,
     _fivetran_synced |-> now,
     _fivetran_deleted |-> FALSE]

Rows(records, now) == [i \in 1..Len(records) |-> Row(records[i], now)]

\* line 312
BatchCountOfPage(records, processed_records) == Len(records)
BatchCount(records, processed_records) == Len(processed_records)

\* process_food_enforcement_records and lines 166-176
ProcessPage ==
    /\ pc = "process"
    /\ LET results == data.results
           processed_records == Processed(results)
           batch_processed == BatchCount(results, processed_records)
       IN  /\ destination' = destination \cup Ids(processed_records)
           /\ runUpserted' = runUpserted \cup Ids(processed_records)
           /\ pageRows' = Rows(processed_records, Now)
           /\ current_batch_processed' =
                  current_batch_processed + batch_processed
           /\ total_processed' = total_processed + batch_processed
           /\ lastPage' = results
           /\ IF EndOfData(results, params.limit)
              THEN pc' = "final" /\ exit' = "short"
              ELSE pc' = "checkpoint" /\ exit' = exit
    /\ pages' = pages + 1
    /\ UNCHANGED <<arg, ret, configuration, max_retries, upstream, persisted,
                   clock, runs, state, params, skip, data, attempt, waits,
                   error, gets, callGets, fetches, ckpts, exhausted, failSnap,
                   prevEnd, prevSearch, prevDest>>

\* lines 179 and 187: the checkpoint is written after skip was advanced
CheckpointedCursorStale(oldSkip, newSkip) == oldSkip
CheckpointedCursor(oldSkip, newSkip) == newSkip

\* lines 178-193, then the loop test of line 145
PageCheckpoint ==
    /\ pc = "checkpoint"
    /\ skip' = skip + params.limit
    /\ persisted' =
          [present |-> TRUE,
           last_sync_date |-> get_latest_report_date(data.results, Now),
           total_processed |-> total_processed,
           last_cursor |-> CheckpointedCursor(skip, skip')]
    /\ ckpts' = ckpts + 1
    /\ attempt' = 0
    /\ waits' = <<>>
    /\ callGets' = 0
    /\ LoopHead(total_processed, skip')
    /\ UNCHANGED <<pageRows, arg, ret, configuration, max_retries, upstream,
                   destination, clock, runs, state, total_processed,
                   current_batch_processed, data, error, gets, fetches, pages,
                   lastPage, runUpserted, exhausted, failSnap, prevEnd,
                   prevSearch, prevDest>>

\* lines 195-210
FinalCheckpoint ==
    /\ pc = "final"
    /\ persisted' =
          [present |-> TRUE,
           last_sync_date |-> FinalCursor(data, Now),
           total_processed |-> total_processed,
           last_cursor |-> skip]
    /\ ckpts' = ckpts + 1
    /\ pc' = "terminated"
    /\ UNCHANGED <<pageRows, arg, ret, configuration, max_retries, upstream,
                   destination, clock, runs, state, params, skip,
                   total_processed, current_batch_processed, data, attempt,
                   waits, error, gets, callGets, fetches, pages, lastPage,
                   runUpserted, exit, exhausted, failSnap, prevEnd,
                   prevSearch, prevDest>>

\* the process is terminated from outside between two steps of update
Kill ==
    /\ pc \in {"fetch", "checkpoint", "final"}
    /\ pc' = "killed"
    /\ UNCHANGED <<pageRows, arg, ret, configuration, max_retries, upstream,
                   persisted, destination, clock, runs, state, params, skip,
                   total_processed, current_batch_processed, data, attempt,
                   waits, error, gets, callGets, fetches, ckpts, pages,
                   lastPage, runUpserted, exit, exhausted, failSnap, prevEnd,
                   prevSearch, prevDest>>

\* the process is terminated inside the upsert loop of lines 308-309
KillInPage ==
    /\ pc = "process"
    /\ LET processed_records == Processed(data.results)
       IN  \E k \in 0..(Len(processed_records) - 1) :
              LET done == SubSeq(processed_records, 1, k)
              IN  /\ destination' = destination \cup Ids(done)
                  /\ runUpserted' = runUpserted \cup Ids(done)
                  /\ pageRows' = Rows(done, Now)
    /\ pc' = "killed"
    /\ UNCHANGED <<arg, ret, configuration, max_retries, upstream, persisted,
                   clock, runs, state, params, skip, total_processed,
                   current_batch_processed, data, attempt, waits, error, gets,
                   callGets, fetches, ckpts, pages, lastPage, exit, exhausted,
                   failSnap, prevEnd, prevSearch, prevDest>>

Next ==
    \/ StartRun
    \/ GetOk
    \/ GetFailRetry
    \/ GetFailRaise
    \/ ProcessPage
    \/ PageCheckpoint
    \/ FinalCheckpoint
    \/ Kill
    \/ KillInPage

Spec == Init /\ [][Next]_vars

----------------------------------------------------------------------------
(* One run of update whose retry client is given each max_retries up to   *)
(* MaxAttempts                                                            *)

RetryInit ==
    /\ configuration \in
          [has_api_key : {TRUE}, api_key : {"key"}, limit : LimitChoices,
           max_records : MaxRecordsChoices,
           sync_mode : {"incremental", "full"}]
    /\ max_retries \in 1..MaxAttempts
    /\ \E dates \in Datasets : upstream = Upstream(dates)
    /\ persisted = EmptyState
    /\ destination = {}
    /\ clock = 1
    /\ runs = 1
    /\ pc = "fetch"
    /\ state = EmptyState
    /\ params = [limit |-> ClampedLimit(configuration.limit),
                 search |-> None, skip |-> 0]
    /\ skip = 0
    /\ total_processed = 0
    /\ current_batch_processed = 0
    /\ data = NoData
    /\ attempt = 0
    /\ waits = <<>>
    /\ error = "none"
    /\ gets = 0
    /\ callGets = 0
    /\ fetches = 0
    /\ ckpts = 0
    /\ pages = 0
    /\ lastPage = <<>>
    /\ runUpserted = {}
    /\ exit = "none"
    /\ exhausted = FALSE
    /\ failSnap = <<>>
    /\ prevEnd = "none"
    /\ prevSearch = None
    /\ prevDest = {}
    /\ pageRows = <<>>
    /\ NoCall

RetryNext ==
    \/ GetOk
    \/ GetFailRetry
    \/ GetFailRaise
    \/ ProcessPage
    \/ PageCheckpoint
    \/ FinalCheckpoint

RetrySpec == RetryInit /\ [][RetryNext]_vars

----------------------------------------------------------------------------
(* Properties *)

RECURSIVE SumSeq(_)
SumSeq(q) == IF q = <<>> THEN 0 ELSE Head(q) + SumSeq(Tail(q))

\* the record is in the result set of a fetch with this search filter
InFilter(r, search) == search = None \/ RecordMatches(r, search)

ValidDate(r) == r.report_date # None /\ Len(r.report_date) = 8

\* C1: after a run was killed, a resumed run that ends at the end of the data
\* has upserted every upstream record that matched the killed run's filter.
C1_NoDataDroppedOnResume ==
    (prevEnd = "killed" /\ pc = "terminated" /\ exit \in {"empty", "short"})
        => \A i \in 1..Len(upstream) :
              InFilter(upstream[i], prevSearch)
                  => upstream[i].recall_number \in destination

\* C2 (as stated): the first fetch of a run started from a checkpointed state
\* after a crash uses the checkpointed next offset.
C2_ResumesAtCheckpointedOffset ==
    (pc = "fetch" /\ fetches = 0 /\ prevEnd \in {"killed", "failed"}
        /\ state.present)
        => params.skip = state.last_cursor

\* C2 (amended): the first fetch of every run uses offset 0, whatever
\* last_cursor was checkpointed, and carries the date filter built from the
\* checkpointed last_sync_date in incremental mode (no filter otherwise).
C2_RestartsAtOffsetZero ==
    (pc = "fetch" /\ fetches = 0)
        => /\ skip = 0
           /\ params.skip = 0
           /\ state = DefaultedState(persisted)
           /\ params.search =
                 IF configuration.sync_mode = "incremental"
                        /\ persisted.last_sync_date # None
                 THEN persisted.last_sync_date ELSE None

\* a run resumed after a kill whose input state holds a positive last_cursor
\* is about to fetch offset 0 again, having upserted that page before
C2_Witness ==
    /\ pc = "fetch" /\ fetches = 0 /\ prevEnd = "killed"
    /\ state.last_cursor > 0
    /\ params.skip = 0
    /\ Ids(ApiResults(params)) \cap prevDest # {}

\* C3: from one checkpoint to the next, within a run and across runs, the
\* persisted last_sync_date never decreases.
C3_LastSyncDateNonDecreasing ==
    [][(persisted.present /\ persisted'.present)
          => ~StrLess(persisted'.last_sync_date, persisted.last_sync_date)]_vars

\* C4 (as stated): a run whose input total_processed is at or above
\* max_records writes a final checkpoint whose last_sync_date is the input
\* state's last_sync_date, or the current time when the input has none.
C4_FinalEqualsInputCursor ==
    (pc = "terminated" /\ state.total_processed >= configuration.max_records)
        => persisted.last_sync_date =
              IF state.last_sync_date # None THEN state.last_sync_date ELSE Now

\* C4 (amended): such a run performs zero fetches and zero upserts and writes
\* exactly one checkpoint, the final one, whose last_sync_date is the current
\* time whatever the input state's last_sync_date is; total_processed is the
\* input's and last_cursor is 0.
C4_CapReachedAtStart ==
    (runs > 0 /\ error = "none"
        /\ state.total_processed >= configuration.max_records)
        => /\ gets = 0
           /\ fetches = 0
           /\ current_batch_processed = 0
           /\ runUpserted = {}
           /\ destination = prevDest
           /\ pc \in {"final", "terminated", "killed"}
           /\ pc = "terminated"
                 => /\ ckpts = 1
                    /\ persisted =
                          [present |-> TRUE,
                           last_sync_date |-> Now,
                           total_processed |-> state.total_processed,
                           last_cursor |-> 0]

\* a run that started at the cap with a dated input cursor has terminated
C4_Witness ==
    /\ pc = "terminated"
    /\ state.total_processed >= configuration.max_records
    /\ state.last_sync_date # None
    /\ state.last_sync_date # Now
    /\ gets = 0

\* C5: an incremental re-run whose input last_sync_date is the maximum report
\* date of the previously processed batch upserts every upstream record that
\* carries exactly that date.
C5_BoundaryRecordsNotLost ==
    (pc = "terminated" /\ prevEnd = "terminated"
        /\ configuration.sync_mode = "incremental")
        => \A i \in 1..Len(upstream) :
              (ValidDate(upstream[i])
                  /\ IsoDate(upstream[i].report_date) = state.last_sync_date)
                  => upstream[i].recall_number \in runUpserted

\* C6 (as stated): a run that ends normally after processing n pages has
\* written n + 1 checkpoints.
C6_OneCheckpointPerPagePlusFinal ==
    pc = "terminated" => ckpts = pages + 1

\* C6 (amended): a run that ends normally after processing n pages has
\* written n + 1 checkpoints when it processed no page or its last processed
\* page was full, and n checkpoints when its last processed page was short:
\* a short page is followed by the final checkpoint only.
C6_CheckpointCount ==
    pc = "terminated"
        => ckpts = IF pages > 0 /\ Len(lastPage) < params.limit
                   THEN pages ELSE pages + 1

\* a run ended normally on a short page after at least one full page
C6_Witness ==
    /\ pc = "terminated"
    /\ pages >= 2
    /\ Len(lastPage) < params.limit
    /\ ckpts = pages

\* C7: the final checkpoint of a normally ending run carries the cursor
\* derived from the last page processed in the run, and the current time only
\* when the run processed no page.
C7_FinalCursorFromLastPage ==
    pc = "terminated"
        => persisted.last_sync_date =
              IF pages > 0 THEN get_latest_report_date(lastPage, Now) ELSE Now

\* C8: the persisted total_processed never decreases, from one checkpoint to
\* the next within a run and across successive runs.
C8_TotalProcessedNonDecreasing ==
    [][persisted'.total_processed >= persisted.total_processed]_vars

\* a second run, started from a positive total, has checkpointed a larger one
C8_Witness ==
    /\ runs = 2
    /\ ckpts >= 1
    /\ state.total_processed > 0
    /\ persisted.total_processed > state.total_processed

\* C9: a retry call issues at most max_retries GETs; the wait after the failed
\* attempt with index k, when another attempt remains, is 2^k seconds; the
\* first successful attempt ends the call with no further GET; exhausting the
\* attempts ends it after max_retries GETs and max_retries - 1 waits; with
\* max_retries = 3, two failures and a success wait 1 + 2 = 3 seconds.
C9_RetryBackoff ==
    /\ callGets <= max_retries
    /\ Len(waits) = attempt
    /\ \A k \in 1..Len(waits) : waits[k] = 2 ^ (k - 1)
    /\ pc = "fetch" => callGets = attempt /\ attempt < max_retries
    /\ (pc \in {"process", "checkpoint"} \/ (pc = "final" /\ exit = "empty"))
          => callGets = attempt + 1
    /\ pc = "failed"
          => callGets = max_retries /\ Len(waits) = max_retries - 1
    /\ (max_retries = 3 /\ pc = "process" /\ attempt = 2)
          => SumSeq(waits) = 3

\* the third of three attempts succeeded after waits of 1 and 2 seconds
C9_Witness ==
    /\ max_retries = 3
    /\ pc = "process"
    /\ attempt = 2
    /\ callGets = 3
    /\ waits = <<1, 2>>

C11_MissingApiKeyFailsValidation ==
    (runs > 0 /\ (~configuration.has_api_key \/ configuration.api_key = ""))
        => /\ pc = "failed"
           /\ error = "ValueError"
           /\ gets = 0
           /\ fetches = 0
           /\ runUpserted = {}
           /\ destination = {}
           /\ ckpts = 0
           /\ persisted = EmptyState

\* a run with an empty api_key has failed in validation
C11_Witness ==
    /\ runs > 0
    /\ configuration.has_api_key
    /\ configuration.api_key = ""
    /\ pc = "failed"
    /\ error = "ValueError"
    /\ gets = 0

\* C12 (as stated): after a full page the loop goes on to fetch the next
\* offset.
C12_FullPageContinues ==
    [][(pc = "checkpoint" /\ pc' # "killed")
          => (pc' = "fetch" /\ params'.skip = skip + params.limit)]_vars

\* C12 (amended): after a full page the loop checkpoints and goes on to fetch
\* the next offset unless the running total has reached max_records, in which
\* case it stops; a short page is still upserted and counted, and after it no
\* further fetch is issued in the run.
C12_PageSizeDecidesContinuation ==
    [][/\ (pc = "checkpoint" /\ pc' # "killed")
            => IF total_processed < configuration.max_records
               THEN /\ pc' = "fetch"
                    /\ skip' = skip + params.limit
                    /\ params'.skip = skip'
               ELSE pc' = "final"
       /\ (pc = "process" /\ pc' # "killed")
            => /\ runUpserted' = runUpserted \cup Ids(Processed(data.results))
               /\ total_processed'
                     = total_processed + Len(Processed(data.results))
               /\ pc' = IF Len(data.results) < params.limit
                        THEN "final" ELSE "checkpoint"
       /\ (pages > 0 /\ Len(lastPage) < params.limit /\ runs' = runs)
            => gets' = gets /\ fetches' = fetches]_vars

\* a run has processed a short page after a full one and is about to end
C12_Witness ==
    /\ pc = "final"
    /\ exit = "short"
    /\ pages >= 2
    /\ fetches = pages
    /\ params.skip = params.limit * (pages - 1)
    /\ Ids(lastPage) \subseteq runUpserted

\* C13: max_records caps one run: the records a run has upserted never exceed
\* max_records, and the loop stops on the cap only once the records of this
\* run have reached it.
C13_PerRunCap ==
    /\ current_batch_processed <= configuration.max_records
    /\ (pc = "final" /\ exit = "cap")
          => current_batch_processed >= configuration.max_records

----------------------------------------------------------------------------
(* get_latest_report_date called once on a batch of records *)

\* report_date values of the batches: the upstream ones, an 8-character
\* value that is no date, and a missing one
CursorRawDates ==
    RawDates \cup { <<"2", "0", "2", "4", "A", "A", "1", "5">>, None }

CursorBatches ==
    UNION { [1..n -> CursorRawDates] : n \in 0..MaxRecs }

\* everything but the call is at rest
ProgramAtRest ==
    /\ configuration =
          [has_api_key |-> TRUE, api_key |-> "key", limit |-> 1,
           max_records |-> 1, sync_mode |-> "incremental"]
    /\ max_retries = DefaultMaxRetries
    /\ upstream = <<>>
    /\ persisted = EmptyState
    /\ destination = {}
    /\ clock = 0
    /\ runs = 0
    /\ RunLocals

CursorInit ==
    /\ ProgramAtRest
    /\ pc = "call"
    /\ \E dates \in CursorBatches : arg = Upstream(dates)
    /\ ret = <<>>

\* lines 218-243
CallGetLatestReportDate ==
    /\ pc = "call"
    /\ ret' = get_latest_report_date(arg, Now)
    /\ pc' = "return"
    /\ UNCHANGED <<pageRows, arg, configuration, max_retries, upstream,
                   persisted, destination, clock, runs, state, params, skip,
                   total_processed, current_batch_processed, data, attempt,
                   waits, error, gets, callGets, fetches, ckpts, pages,
                   lastPage, runUpserted, exit, exhausted, failSnap, prevEnd,
                   prevSearch, prevDest>>

CursorNext == CallGetLatestReportDate

CursorSpec == CursorInit /\ [][CursorNext]_vars

IsDigit(c) == c \in {"0", "1", "2", "3", "4", "5", "6", "7", "8", "9"}

\* a YYYYMMDD value: eight characters, all digits
WellFormed(report_date) ==
    /\ Len(report_date) = 8
    /\ \A i \in 1..Len(report_date) : IsDigit(report_date[i])

WellFormedIsoDates(records) ==
    { IsoDate(records[i].report_date) :
        i \in { j \in 1..Len(records) : WellFormed(records[j].report_date) } }

\* the greatest string of a non-empty set
MaxStr(S) == CHOOSE m \in S : \A x \in S : ~StrLess(m, x)

\* C14: the returned cursor never comes from a malformed report_date (wrong
\* length or non-numeric): it is the normalized form of a well-formed one of
\* the batch, or the current time.
C14_MalformedDatesSkipped ==
    pc = "return"
        => (ret = Now \/ ret \in WellFormedIsoDates(arg))

\* C15: for a batch with at least one valid YYYYMMDD report_date the returned
\* cursor is the maximum of the valid dates, normalized, whatever the order
\* of the records.
C15_MaxOfValidDates ==
    (pc = "return" /\ WellFormedIsoDates(arg) # {})
        => ret = MaxStr(WellFormedIsoDates(arg))

----------------------------------------------------------------------------
(* flatten_dict, lines 51-72, called once on a record *)

(* A JSON value is a record with a tag t and, by tag, the string or number  *)
(* text s, the list l of string elements, or the dict d: a sequence of      *)
(* key/value pairs in insertion order with distinct keys.                   *)
StrVal(s) == [t |-> "str", s |-> s, l |-> <<>>, d |-> <<>>]
NumVal(s) == [t |-> "num", s |-> s, l |-> <<>>, d |-> <<>>]
NullVal == [t |-> "null", s |-> <<>>, l |-> <<>>, d |-> <<>>]
ListVal(l) == [t |-> "list", s |-> <<>>, l |-> l, d |-> <<>>]
DictVal(d) == [t |-> "dict", s |-> <<>>, l |-> <<>>, d |-> d]

Pair(k, v) == [k |-> k, v |-> v]

\* json.dumps of a list of strings: ["x", "y"]
RECURSIVE JsonElements(_, _)
JsonElements(l, i) ==
    IF i > Len(l) THEN <<>>
    ELSE (IF i > 1 THEN <<",", " ">> ELSE <<>>)
            \o <<"\"">> \o l[i] \o <<"\"">> \o JsonElements(l, i + 1)

JsonDumps(l) == <<"[">> \o JsonElements(l, 1) \o <<"]">>

\* line 64
NewKeyAlwaysJoined(parent_key, sep, k) == parent_key \o sep \o k
NewKey(parent_key, sep, k) ==
    IF parent_key # <<>> THEN parent_key \o sep \o k ELSE k

\* line 69: json.dumps(v) if v else None
ListFieldAlwaysDumped(v) == StrVal(JsonDumps(v.l))
ListField(v) == IF v.l # <<>> THEN StrVal(JsonDumps(v.l)) ELSE NullVal

\* dict(items), line 72: a repeated key keeps its place and takes the later
\* value
RECURSIVE DictFromItems(_, _, _)
DictFromItems(items, i, acc) ==
    IF i > Len(items) THEN acc
    ELSE LET hit == { j \in 1..Len(acc) : acc[j].k = items[i].k }
         IN  DictFromItems(items, i + 1,
                 IF hit = {}
                 THEN Append(acc, items[i])
                 ELSE [j \in 1..Len(acc) |->
                          IF j \in hit THEN items[i] ELSE acc[j]])

RECURSIVE flatten_dict(_, _, _)
RECURSIVE FlattenItems(_, _, _, _)
\* lines 63-71
FlattenItems(d, parent_key, sep, i) ==
    IF i > Len(d) THEN <<>>
    ELSE LET k == d[i].k
             v == d[i].v
             new_key == NewKey(parent_key, sep, k)
         IN  (IF v.t = "dict"
              THEN flatten_dict(v.d, new_key, sep)
              ELSE IF v.t = "list"
              THEN <<Pair(new_key, ListField(v))>>
              ELSE <<Pair(new_key, v)>>)
                 \o FlattenItems(d, parent_key, sep, i + 1)

flatten_dict(d, parent_key, sep) ==
    DictFromItems(FlattenItems(d, parent_key, sep, 1), 1, <<>>)

\* the default separator, line 51
Sep == <<"_">>

(* the records flattened: up to three levels of nesting, keys a, b and a_b *)
LeafValues ==
    { StrVal(<<"x">>), NumVal(<<"1">>), NullVal, ListVal(<<>>),
      ListVal(<< <<"x">> >>), ListVal(<< <<"x">>, <<"y">> >>) }

DictsOfOne(keys, values) ==
    { <<>> } \cup { <<Pair(k, v)>> : k \in keys, v \in values }

DictsOfTwo(keys, values) ==
    DictsOfOne(keys, values)
        \cup { <<p, q>> : p \in { Pair(k, v) : k \in keys, v \in values },
                          q \in { Pair(k, v) : k \in keys, v \in values } }

InnerKeys == { <<"a">>, <<"b">> }

InnermostDicts == DictsOfOne(InnerKeys, LeafValues)

MiddleDicts ==
    DictsOfOne(InnerKeys,
               LeafValues \cup { DictVal(d) : d \in InnermostDicts })

FlattenInputs ==
    { d \in DictsOfTwo(InnerKeys \cup { <<"a", "_", "b">> },
                       LeafValues \cup { DictVal(m) : m \in MiddleDicts }) :
        Len(d) = 2 => d[1].k # d[2].k }

FlattenInit ==
    /\ ProgramAtRest
    /\ pc = "call"
    /\ arg \in FlattenInputs
    /\ ret = <<>>

CallFlattenDict ==
    /\ pc = "call"
    /\ ret' = flatten_dict(arg, <<>>, Sep)
    /\ pc' = "return"
    /\ UNCHANGED <<pageRows, arg, configuration, max_retries, upstream,
                   persisted, destination, clock, runs, state, params, skip,
                   total_processed, current_batch_processed, data, attempt,
                   waits, error, gets, callGets, fetches, ckpts, pages,
                   lastPage, runUpserted, exit, exhausted, failSnap, prevEnd,
                   prevSearch, prevDest>>

FlattenNext == CallFlattenDict

FlattenSpec == FlattenInit /\ [][FlattenNext]_vars

\* the joined key path and the value of every leaf of d
RECURSIVE Leaves(_, _)
Leaves(d, prefix) ==
    UNION { LET path == IF prefix = <<>> THEN d[i].k
                        ELSE prefix \o <<"_">> \o d[i].k
            IN  IF d[i].v.t = "dict" THEN Leaves(d[i].v.d, path)
                ELSE { Pair(path, d[i].v) } : i \in 1..Len(d) }

IsJsonArrayOf(v, l) ==
    /\ v.t = "str"
    /\ v.s = JsonDumps(l)
    /\ Head(v.s) = "[" /\ v.s[Len(v.s)] = "]"

FlatValueOf(leaf, v) ==
    IF leaf.t = "list"
    THEN IF leaf.l = <<>> THEN v = NullVal ELSE IsJsonArrayOf(v, leaf.l)
    ELSE v = leaf

SingleLevel(m) == \A i \in 1..Len(m) : m[i].v.t \notin {"dict", "list"}

\* C16: flatten_dict returns a single-level mapping in which every leaf of
\* the input is found under its key <parent>_<child>, a non-empty list as one
\* JSON-array string, an empty list as null, a scalar unchanged.
C16_LeavesUnderJoinedKeys ==
    pc = "return"
        => /\ SingleLevel(ret)
           /\ \A leaf \in Leaves(arg, <<>>) :
                 \E i \in 1..Len(ret) :
                    ret[i].k = leaf.k /\ FlatValueOf(leaf.v, ret[i].v)

\* C17: flatten_dict is idempotent: flattening its own result returns that
\* result unchanged.
C17_FlattenIdempotent ==
    pc = "return" => flatten_dict(ret, <<>>, Sep) = ret

C17_Witness ==
    /\ pc = "return"
    /\ Len(ret) = 2
    /\ ret # arg
    /\ \E i \in 1..Len(arg) : arg[i].v.t = "dict" /\ arg[i].v.d # <<>>
    /\ \E i \in 1..Len(arg) : arg[i].v.t = "list" /\ arg[i].v.l # <<>>
    /\ flatten_dict(ret, <<>>, Sep) = ret

----------------------------------------------------------------------------
(* Checkpoints between the fetches of a run *)

\* C18: every fetch after the first of a run is preceded by a checkpoint
\* written after the previous page was processed; that checkpoint holds
\* last_cursor equal to the offset of the fetch that follows, total_processed
\* equal to the running total and last_sync_date equal to the cursor derived
\* from the previous page.
C18_CheckpointBeforeNextFetch ==
    (pc = "fetch" /\ fetches > 0)
        => /\ pages = fetches
           /\ ckpts = fetches
           /\ lastPage = data.results
           /\ persisted =
                 [present |-> TRUE,
                  last_sync_date |-> get_latest_report_date(lastPage, Now),
                  total_processed |-> total_processed,
                  last_cursor |-> params.skip]
           /\ params.skip = fetches * params.limit

C18_Witness ==
    /\ pc = "fetch"
    /\ fetches = 2
    /\ attempt = 0
    /\ persisted.last_cursor = 2
    /\ persisted.total_processed = 2
    /\ params.skip = 2

----------------------------------------------------------------------------
(* One run of update on a valid configuration whose limit lies around the  *)
(* API maximum, over records some of which fail to flatten, starting from   *)
(* no state or from the state a previous sync checkpointed                  *)

EdgeLimitChoices == {1, 2, ApiMaxLimit, ApiMaxLimit + 1}

EdgeDates == { d \in RawDates : Len(d) = 8 }

EdgeRecords ==
    UNION { [1..n -> [report_date : EdgeDates,
                      nesting : {"shallow", "too_deep"}]] : n \in 0..MaxRecs }

EdgeUpstream(recs) ==
    [i \in 1..Len(recs) |->
        [recall_number |-> i, report_date |-> recs[i].report_date,
         nesting |-> recs[i].nesting]]

\* lines 183-189 and 203-208 of an earlier sync that upserted one record
EdgeStates ==
    { EmptyState }
        \cup [present : {TRUE},
              last_sync_date : { IsoDate(d) : d \in EdgeDates },
              total_processed : {1},
              last_cursor : {0, 1}]

EdgeInit ==
    /\ configuration \in
          [has_api_key : {TRUE}, api_key : {"key"}, limit : EdgeLimitChoices,
           max_records : MaxRecordsChoices,
           sync_mode : {"incremental", "full"}]
    /\ max_retries = DefaultMaxRetries
    /\ \E recs \in EdgeRecords : upstream = EdgeUpstream(recs)
    /\ persisted \in EdgeStates
    /\ destination = {}
    /\ clock = 0
    /\ runs = MaxRuns - 1
    /\ RunIdle

EdgeSpec == EdgeInit /\ [][Next]_vars

C20_PageSizeAndFilter ==
    pc = "fetch"
        => /\ params.limit <= 1000
           /\ params.limit = IF configuration.limit > 1000 THEN 1000
                             ELSE configuration.limit
           /\ params.search =
                 IF configuration.sync_mode = "incremental"
                       /\ state.present /\ state.last_sync_date # None
                 THEN state.last_sync_date
                 ELSE None
           /\ fetches = 0 => state = DefaultedState(persisted)

C20_Witness ==
    /\ pc = "fetch"
    /\ configuration.limit = 1001
    /\ params.limit = 1000
    /\ configuration.sync_mode = "incremental"
    /\ params.search = IsoDate(<<"2", "0", "2", "4", "0", "1", "0", "1">>)
    /\ attempt = 1

C20_WitnessLaterFetch ==
    /\ pc = "fetch"
    /\ fetches = 1
    /\ params.skip = 2
    /\ params.limit = 2
    /\ params.search # None

----------------------------------------------------------------------------
(* The running total and the offsets of a run *)

\* C21: at every checkpoint update writes, the persisted total_processed is
\* the input state's total_processed plus the number of records upserted so
\* far in this run.
C21_CheckpointedTotal ==
    [][ckpts' = ckpts + 1
          => /\ persisted'.present
             /\ persisted'.total_processed =
                   state.total_processed + Cardinality(runUpserted')]_vars

C21_Witness ==
    /\ pc = "terminated"
    /\ ckpts = 2
    /\ Len(upstream) = 3
    /\ state.total_processed = 1
    /\ Cardinality(runUpserted) = 2
    /\ persisted.total_processed = 3

\* C22: the fetches of a run are sequential: the k-th fetch (k = 0, 1, ...)
\* is issued only after the pages of all earlier fetches were processed and
\* uses offset k times the page size, so no offset is fetched twice or
\* skipped within the run.
C22_SequentialOffsets ==
    /\ pc = "fetch"
          => /\ pages = fetches
             /\ skip = fetches * params.limit
             /\ params.skip = skip
    /\ pc = "process"
          => /\ fetches = pages + 1
             /\ params.skip = pages * params.limit
             /\ data.results = ApiResults(params)

C22_Witness ==
    /\ pc = "process"
    /\ runs = 2
    /\ fetches = 3
    /\ pages = 2
    /\ params.limit = 1
    /\ params.skip = 2
    /\ persisted.last_cursor = 2

----------------------------------------------------------------------------
(* One run of update that nothing terminates from outside, in which every *)
(* HTTP attempt returns or fails and update keeps taking its steps         *)

\* records of one report date, some of which fail to flatten
LiveRecords ==
    { recs \in EdgeRecords :
         \A i \in 1..Len(recs) :
            recs[i].report_date = <<"2", "0", "2", "4", "0", "1", "0", "1">> }

LiveInit ==
    /\ configuration \in
          [has_api_key : {TRUE}, api_key : {"key"}, limit : LimitChoices,
           max_records : MaxRecordsChoices, sync_mode : {"incremental"}]
    /\ max_retries = DefaultMaxRetries
    /\ \E recs \in LiveRecords : upstream = EdgeUpstream(recs)
    /\ persisted \in EdgeStates
    /\ destination = {}
    /\ clock = 0
    /\ runs = MaxRuns - 1
    /\ RunIdle

LiveNext ==
    \/ StartRun
    \/ GetOk
    \/ GetFailRetry
    \/ GetFailRaise
    \/ ProcessPage
    \/ PageCheckpoint
    \/ FinalCheckpoint

\* line 258: requests.get with timeout=30 returns or raises
AttemptMayHang == TRUE
AttemptCompletes == WF_vars(GetOk \/ GetFailRetry \/ GetFailRaise)

\* the interpreter runs lines 166-208 once the response is there
UpdateProceeds ==
    /\ WF_vars(ProcessPage)
    /\ WF_vars(PageCheckpoint)
    /\ WF_vars(FinalCheckpoint)

LiveSpec ==
    LiveInit /\ [][LiveNext]_vars /\ AttemptCompletes /\ UpdateProceeds

\* C23: every run of update over a finite upstream dataset, with each HTTP
\* attempt eventually returning or failing, eventually reaches TERMINATED
\* (final checkpoint written) or FAILED (error raised).
C23_RunEnds ==
    (pc \in {"fetch", "process", "checkpoint", "final"})
        ~> (pc \in {"terminated", "failed"})

C23_Witness ==
    /\ pc = "terminated"
    /\ exit = "empty"
    /\ pages = 3
    /\ total_processed = state.total_processed
    /\ total_processed < configuration.max_records
    /\ ckpts = 4

====
